---- MODULE Spec2Model ----
(***************************************************************************)
(* A model of the gofish entity core: the Entity operations of             *)
(* common/entity.go (Get, Patch, Post, Update and the flag setters), the   *)
(* reflection-driven diff getPatchPayloadFromUpdate, and the concurrent    *)
(* collection fetch ListReferencedDataStorageLineOfServices.               *)
(*                                                                         *)
(* Strings are sequences of one-character strings, URIs are sequences of   *)
(* path segments ("/a/b" is <<"a", "b">>), Go maps are functions.          *)
(***************************************************************************)
EXTENDS Integers, Sequences, FiniteSets, TLC

VARIABLES
    ODataID,            \* Entity.ODataID of the in-memory record
    ID,                 \* Entity.ID of the in-memory record
    client,             \* Entity.client, NoClient when nil
    etag,               \* Entity.etag
    stripEtagQuotes,    \* Entity.stripEtagQuotes
    disableEtagMatch,   \* Entity.disableEtagMatch
    op,                 \* the last operation called on the entity and its inputs
    calls,              \* the Client calls issued by the last operation
    ret,                \* the value the last operation returned
    r,                  \* collection fetch: the GetResult last received from ch
    closed,             \* collection fetch: close(ch) has run
    Failures,           \* collection fetch: collectionError.Failures
    result,             \* collection fetch: the result slice
    members,            \* collection fetch: the links CollectList hands to get
    failing,            \* collection fetch: the links whose Get fails
    walkErr,            \* collection fetch: CollectList's own error
    listLink,           \* collection fetch: the link argument
    wpc,                \* collection fetch: position of each get goroutine
    cpc,                \* collection fetch: position of the CollectList goroutine
    mpc,                \* collection fetch: position of the calling goroutine
    returned,           \* collection fetch: what the function returned
    dShape,             \* diff: the record type of the two arguments
    dOriginal,          \* diff: the originalEntity argument
    dUpdated,           \* diff: the updatedEntity argument
    dPayload,           \* diff: the payload getPatchPayloadFromUpdate returned
    dpc,                \* diff: "args" before the call, "done" after it
    filter,             \* the Filter string
    fop                 \* the last operation called on the Filter and its options

varsEntity == <<ODataID, ID, client, etag, stripEtagQuotes, disableEtagMatch,
                op, calls, ret>>
varsList == <<r, closed, Failures, result, members, failing, walkErr,
              listLink, wpc, cpc, mpc, returned>>
varsDiff == <<dShape, dOriginal, dUpdated, dPayload, dpc>>
varsFilter == <<filter, fop>>
vars == <<varsEntity, varsList, varsDiff, varsFilter>>

----------------------------------------------------------------------------
(* Bounds of the model. *)

MaxEtagLen == 3
MaxMembers == 3
MaxOpts == 3

----------------------------------------------------------------------------
(* Strings. *)

DQUOTE == "\""
EtagChars == {DQUOTE, "a"}

RECURSIVE SeqsUpTo(_, _)
SeqsUpTo(S, n) ==
    IF n = 0 THEN {<<>>}
    ELSE LET shorter == SeqsUpTo(S, n - 1)
         IN  shorter \cup {Append(s, c) : s \in {t \in shorter : Len(t) = n - 1}, c \in S}

\* The values an Etag response header can carry.
EtagValues == SeqsUpTo(EtagChars, MaxEtagLen)

RECURSIVE TrimLeft(_, _)
TrimLeft(s, cutset) ==
    IF s # <<>> /\ Head(s) \in cutset THEN TrimLeft(Tail(s), cutset) ELSE s

RECURSIVE TrimRight(_, _)
TrimRight(s, cutset) ==
    IF s # <<>> /\ s[Len(s)] \in cutset
    THEN TrimRight(SubSeq(s, 1, Len(s) - 1), cutset)
    ELSE s

TrimOnePair(s, cutset) ==
    IF Len(s) >= 2 /\ Head(s) \in cutset /\ s[Len(s)] \in cutset
    THEN SubSeq(s, 2, Len(s) - 1)
    ELSE s

\* strings.Trim(s, cutset): every leading and trailing character of cutset removed.
Trim(s, cutset) == TrimRight(TrimLeft(s, cutset), cutset)

Digits == <<"0", "1", "2", "3", "4", "5", "6", "7", "8", "9">>

RECURSIVE NatDigits(_)
NatDigits(n) ==
    IF n < 10 THEN <<Digits[n + 1]>>
    ELSE Append(NatDigits(n \div 10), Digits[(n % 10) + 1])

\* strconv.Itoa / fmt.Sprintf("%v", int(x)): the decimal string of an integer.
Itoa(n) == IF n < 0 THEN <<"-">> \o NatDigits(0 - n) ELSE NatDigits(n)

\* strings.Contains(uri, "/" + pattern segments joined by "/" + "/").
ContainsPath(uri, pat) ==
    \E i \in 1..Len(uri) :
        /\ i + Len(pat) - 1 < Len(uri)
        /\ SubSeq(uri, i, i + Len(pat) - 1) = pat

----------------------------------------------------------------------------
(* Go maps as functions. *)

EmptyMap == [k \in {} |-> 0]
Put(m, k, v) == [x \in (DOMAIN m) \cup {k} |-> IF x = k THEN v ELSE m[x]]
MapLen(m) == Cardinality(DOMAIN m)

----------------------------------------------------------------------------
(* Record shapes for reflection: the fields of a struct type in declaration *)
(* order.  json is the value of the field's json tag ("" when it has none). *)

Fld(name, json, kind, exported, anonymous, fields) ==
    [name |-> name, json |-> json, kind |-> kind, exported |-> exported,
     anonymous |-> anonymous, fields |-> fields]

\* type Entity struct
EntityShape ==
    << Fld("ODataID", "@odata.id", "scalar", TRUE, FALSE, <<>>),
       Fld("ID", "Id", "scalar", TRUE, FALSE, <<>>),
       Fld("Name", "Name", "scalar", TRUE, FALSE, <<>>),
       Fld("client", "", "iface", FALSE, FALSE, <<>>),
       Fld("etag", "", "scalar", FALSE, FALSE, <<>>),
       Fld("stripEtagQuotes", "", "scalar", FALSE, FALSE, <<>>),
       Fld("disableEtagMatch", "", "scalar", FALSE, FALSE, <<>>) >>

\* type DataStorageLineOfService struct
DataStorageLineOfServiceShape ==
    << Fld("Entity", "", "struct", TRUE, TRUE, EntityShape),
       Fld("ODataContext", "@odata.context", "scalar", TRUE, FALSE, <<>>),
       Fld("ODataType", "@odata.type", "scalar", TRUE, FALSE, <<>>),
       Fld("AccessCapabilities", "", "slice", TRUE, FALSE, <<>>),
       Fld("Description", "", "scalar", TRUE, FALSE, <<>>),
       Fld("IsSpaceEfficient", "", "scalar", TRUE, FALSE, <<>>),
       Fld("OEM", "Oem", "scalar", TRUE, FALSE, <<>>),
       Fld("ProvisioningPolicy", "", "scalar", TRUE, FALSE, <<>>),
       Fld("RecoverableCapacitySourceCount", "", "scalar", TRUE, FALSE, <<>>),
       Fld("RecoveryTimeObjectives", "", "scalar", TRUE, FALSE, <<>>) >>

\* A slice value: DeepEqual tells a nil slice from an empty one.
NilSlice == [isNil |-> TRUE, elems |-> <<>>]
Slice(elems) == [isNil |-> FALSE, elems |-> elems]

\* An interface value: nil, or a dynamic scalar.
NilIface == [isNil |-> TRUE, v |-> 0]
Iface(v) == [isNil |-> FALSE, v |-> v]

----------------------------------------------------------------------------
(* The structural diff. *)

\* fieldName: the json tag when there is one, the Go name otherwise.
WireName(field) == IF field.json # "" THEN field.json ELSE field.name

\* field.Type.Kind() == reflect.Ptr
IsPointerNever(field) == FALSE
IsPointer(field) == field.kind = "ptr"

\* payload[fieldName] = currentValue
ChangedValueKeepsOriginal(originalValue, currentValue) == originalValue
ChangedValue(originalValue, currentValue) == currentValue

\* else if len(structPayload) != 0
NestsStructAlways(structPayload) == TRUE
NestsStruct(structPayload) == MapLen(structPayload) # 0

RECURSIVE getPatchPayloadFromUpdate(_, _, _)
RECURSIVE DiffFields(_, _, _, _, _)

\* One iteration of the loop over the fields, for field i, then the rest.
DiffFields(shape, originalEntity, updatedEntity, i, payload) ==
    IF i > Len(shape) THEN payload
    ELSE
      LET field == shape[i]
          fieldName == WireName(field)
          originalValue == originalEntity[field.name]
          currentValue == updatedEntity[field.name]
          structPayload ==
              getPatchPayloadFromUpdate(field.fields, originalValue, currentValue)
          spliced ==
              [k \in (DOMAIN payload) \cup (DOMAIN structPayload) |->
                  IF k \in DOMAIN structPayload THEN structPayload[k] ELSE payload[k]]
          after ==
              IF ~field.exported THEN payload
              ELSE IF IsPointer(field) THEN payload
              ELSE IF field.json = "-" THEN payload
              ELSE IF field.kind = "iface" /\ originalValue.isNil /\ currentValue.isNil
                   THEN payload
              ELSE IF field.kind = "iface" /\ originalValue.isNil
                   THEN Put(payload, fieldName, currentValue)
              ELSE IF field.kind \in {"slice", "map"}
                   THEN IF originalValue # currentValue
                        THEN Put(payload, fieldName, currentValue)
                        ELSE payload
              ELSE IF field.kind = "struct"
                   THEN IF field.anonymous THEN spliced
                        ELSE IF NestsStruct(structPayload)
                             THEN Put(payload, fieldName, structPayload)
                             ELSE payload
              ELSE IF originalValue # currentValue
                   THEN Put(payload, fieldName, ChangedValue(originalValue, currentValue))
                   ELSE payload
      IN  DiffFields(shape, originalEntity, updatedEntity, i + 1, after)

getPatchPayloadFromUpdate(shape, originalEntity, updatedEntity) ==
    DiffFields(shape, originalEntity, updatedEntity, 1, EmptyMap)

----------------------------------------------------------------------------
(* The records Update is called with. *)

EntityValue(name, tag) ==
    [ODataID |-> "", ID |-> "", Name |-> name, client |-> NilIface, etag |-> tag,
     stripEtagQuotes |-> FALSE, disableEtagMatch |-> FALSE]

DataStorageLineOfService(name, tag, caps, description) ==
    [Entity |-> EntityValue(name, tag), ODataContext |-> "", ODataType |-> "",
     AccessCapabilities |-> caps, Description |-> description,
     IsSpaceEfficient |-> FALSE, OEM |-> "", ProvisioningPolicy |-> "",
     RecoverableCapacitySourceCount |-> 0, RecoveryTimeObjectives |-> ""]

\* The record as fetched, and the records a caller may have edited it into.
OriginalRecord == DataStorageLineOfService("n", "t", NilSlice, "d")
UpdatedRecords ==
    { DataStorageLineOfService(n, t, c, d) :
        n \in {"n", "m"}, t \in {"t", "u"}, c \in {NilSlice, Slice(<<"Read">>)},
        d \in {"d", "e"} }

AllowedUpdateLists ==
    { <<>>, <<"Description">>, <<"Description", "Name">>,
      <<"Description", "Name", "AccessCapabilities", "IsSpaceEfficient">> }

Range(s) == {s[i] : i \in DOMAIN s}

----------------------------------------------------------------------------
(* The transport (common.Client) and what it answers. *)

NoClient == "nil"
Clients == {"c1", "c2"}

DrivesURI == <<"redfish", "v1", "Chassis", "1", "Drives", "0">>
PCIeDevicesURI == <<"redfish", "v1", "Chassis", "1", "PCIeDevices", "0">>
SystemsURI == <<"redfish", "v1", "Systems", "1">>
URIs == {DrivesURI, PCIeDevicesURI, SystemsURI}

DrivesPath == <<"redfish", "v1", "Chassis", "1", "Drives">>
PCIeDevicesPath == <<"redfish", "v1", "Chassis", "1", "PCIeDevices">>

\* A JSON value of the response body: absent, a string or a number.
Absent == [t |-> "absent", s |-> <<>>, n |-> 0]
JString(s) == [t |-> "string", s |-> s, n |-> 0]
JNumber(n) == [t |-> "number", s |-> <<>>, n |-> n]

\* resp.Header["Etag"]: nil, or a list whose first value is v.
NoHeader == [has |-> FALSE, v |-> <<>>]
Header(v) == [has |-> TRUE, v |-> v]

\* What c.Get answers: status says how far the retrieval gets.
Response(status, odataId, id, etagHdr) ==
    [status |-> status, odataId |-> odataId, id |-> id, etagHdr |-> etagHdr]
NoResponse == Response("none", Absent, Absent, NoHeader)

\* What PatchWithHeaders / PostWithHeaders and the following Body.Close answer.
WriteOutcomes == {"ok", "TransportError", "CloseError"}

Err(kind) == [err |-> kind, field |-> ""]
Nil == Err("nil")
ReadOnly(field) == [err |-> "ReadOnlyField", field |-> field]

\* A call of the Client and how it ended: answer is the status of the response
\* for Get, the outcome of the write and of Body.Close for Patch and Post.
Call(method, c, uri, payload, header, answer) ==
    [method |-> method, client |-> c, uri |-> uri, payload |-> payload,
     header |-> header, answer |-> answer]

Op(name, etag0, resp, payload, allowedUpdates) ==
    [name |-> name, etag0 |-> etag0, resp |-> resp, payload |-> payload,
     allowedUpdates |-> allowedUpdates]

\* A panic ends the process: nothing runs after it.
Alive == ret.err # "panic"

----------------------------------------------------------------------------
(* Entity operations. *)

SetClient(c) ==
    /\ Alive
    /\ client' = c
    /\ op' = Op("SetClient", <<>>, NoResponse, EmptyMap, <<>>)
    /\ calls' = <<>>
    /\ ret' = Nil
    /\ UNCHANGED <<ODataID, ID, etag, stripEtagQuotes, disableEtagMatch,
                   varsList, varsDiff, varsFilter>>

StripEtagQuotes(b) ==
    /\ Alive
    /\ stripEtagQuotes' = b
    /\ op' = Op("StripEtagQuotes", <<>>, NoResponse, EmptyMap, <<>>)
    /\ calls' = <<>>
    /\ ret' = Nil
    /\ UNCHANGED <<ODataID, ID, client, etag, disableEtagMatch,
                   varsList, varsDiff, varsFilter>>

DisableEtagMatch(b) ==
    /\ Alive
    /\ disableEtagMatch' = b
    /\ op' = Op("DisableEtagMatch", <<>>, NoResponse, EmptyMap, <<>>)
    /\ calls' = <<>>
    /\ ret' = Nil
    /\ UNCHANGED <<ODataID, ID, client, etag, stripEtagQuotes,
                   varsList, varsDiff, varsFilter>>

\* The token Patch and Post leave in e.etag and put in the header.
PatchEtag(e, strip) == IF strip THEN Trim(e, {DQUOTE}) ELSE e

PostEtag(e, strip) == IF strip THEN Trim(e, {DQUOTE}) ELSE e

\* if e.etag != "" && !e.disableEtagMatch
PatchSendsIfMatchIgnoresFlag(e, disable) == e # <<>>
PatchSendsIfMatch(e, disable) == e # <<>> /\ ~disable

PostSendsIfMatchIgnoresFlag(e, disable) == e # <<>>
PostSendsIfMatch(e, disable) == e # <<>> /\ ~disable

\* return resp.Body.Close() after a write that went through, return err otherwise
WriteResultSwallowsError(tr) == Nil
WriteResult(tr) == IF tr = "ok" THEN Nil ELSE Err(tr)

\* The body of Entity.Patch; Update runs it too.
PatchBody(uri, payload, tr) ==
    LET guarded == PatchSendsIfMatch(etag, disableEtagMatch)
        token == IF guarded THEN PatchEtag(etag, stripEtagQuotes) ELSE etag
        header == IF guarded THEN Put(EmptyMap, "If-Match", token) ELSE EmptyMap
    IN  /\ etag' = token
        /\ IF client = NoClient
           THEN calls' = <<>> /\ ret' = Err("panic")
           ELSE /\ calls' = <<Call("PATCH", client, uri, payload, header, tr)>>
                /\ ret' = WriteResult(tr)

Patch(uri, payload, tr) ==
    /\ Alive
    /\ op' = Op("Patch", etag, NoResponse, payload, <<>>)
    /\ PatchBody(uri, payload, tr)
    /\ UNCHANGED <<ODataID, ID, client, stripEtagQuotes, disableEtagMatch,
                   varsList, varsDiff, varsFilter>>

Post(uri, payload, tr) ==
    LET guarded == PostSendsIfMatch(etag, disableEtagMatch)
        token == IF guarded THEN PostEtag(etag, stripEtagQuotes) ELSE etag
        header == IF guarded THEN Put(EmptyMap, "If-Match", token) ELSE EmptyMap
    IN  /\ Alive
        /\ op' = Op("Post", etag, NoResponse, payload, <<>>)
        /\ etag' = token
        /\ IF client = NoClient
           THEN calls' = <<>> /\ ret' = Err("panic")
           ELSE /\ calls' = <<Call("POST", client, uri, payload, header, tr)>>
                /\ ret' = WriteResult(tr)
        /\ UNCHANGED <<ODataID, ID, client, stripEtagQuotes, disableEtagMatch,
                   varsList, varsDiff, varsFilter>>

\* The fields the allow-list loop of Update can stop at.
ReadOnlyFieldsEmptyAllowsAll(payload, allowedUpdates) ==
    {field \in DOMAIN payload :
        /\ allowedUpdates # <<>>
        /\ \A i \in DOMAIN allowedUpdates : allowedUpdates[i] # field}
ReadOnlyFields(payload, allowedUpdates) ==
    {field \in DOMAIN payload : \A i \in DOMAIN allowedUpdates : allowedUpdates[i] # field}

\* if len(payload) > 0
HasUpdatesAlways(payload) == TRUE
HasUpdates(payload) == MapLen(payload) > 0

Update(originalEntity, updatedEntity, allowedUpdates, tr) ==
    \E payload \in {getPatchPayloadFromUpdate(DataStorageLineOfServiceShape,
                                              originalEntity, updatedEntity)} :
    LET readOnly == ReadOnlyFields(payload, allowedUpdates)
    IN  /\ Alive
        /\ op' = Op("Update", etag, NoResponse, payload, allowedUpdates)
        /\ IF readOnly # {}
           THEN \* the map is ranged over in any order: any read-only field may be met first
                /\ \E field \in readOnly : ret' = ReadOnly(field)
                /\ calls' = <<>>
                /\ UNCHANGED etag
           ELSE IF HasUpdates(payload)
                THEN PatchBody(ODataID, payload, tr)
                ELSE /\ ret' = Nil
                     /\ calls' = <<>>
                     /\ UNCHANGED etag
        /\ UNCHANGED <<ODataID, ID, client, stripEtagQuotes, disableEtagMatch,
                   varsList, varsDiff, varsFilter>>

----------------------------------------------------------------------------
(* Entity.Get, in the two versions the file carries. *)

\* json.Unmarshal of a number into a string field fails; a string or an absent
\* member decodes.
DecodeFails(v) == v.t = "number"

\* The Go type json.Unmarshal gives a value stored in an interface{}.
DecodedType(v) ==
    IF v.t = "number" THEN "float64" ELSE IF v.t = "string" THEN "string" ELSE "nil"

\* First version: the Id rewrite, done for Drives and PCIeDevices resources only.
NormalizedId(odataId, id) ==
    IF /\ odataId.t = "string"
       /\ \/ ContainsPath(odataId.s, DrivesPath)
          \/ ContainsPath(odataId.s, PCIeDevicesPath)
       /\ id.t = "number"
    THEN JString(Itoa(id.n))
    ELSE id

\* Second version: switch v := check.ID.(type) { case int: ... }
NormalizedId2(id) ==
    IF DecodedType(id) = "int" THEN JString(Itoa(id.n)) ELSE id

\* The tail both versions share: save the etag, bind the client.
GetEtagKeep(resp) == etag
GetEtag(resp) == IF resp.etagHdr.has THEN resp.etagHdr.v ELSE etag

GetFailureIgnoresReadError(resp) ==
    IF resp.status = "TransportError" THEN "TransportError"
    ELSE IF resp.status = "BadJSON" THEN "DecodeError"
    ELSE "nil"
GetFailure(resp) ==
    IF resp.status = "TransportError" THEN "TransportError"
    ELSE IF resp.status = "ReadError" THEN "ReadError"
    ELSE IF resp.status = "BadJSON" THEN "DecodeError"
    ELSE "nil"

Get(c, uri, resp) ==
    LET id == NormalizedId(resp.odataId, resp.id)
    IN  /\ Alive
        /\ op' = Op("Get", <<>>, resp, EmptyMap, <<>>)
        /\ calls' = <<Call("GET", c, uri, EmptyMap, EmptyMap, resp.status)>>
        /\ IF GetFailure(resp) # "nil"
           THEN /\ ret' = Err(GetFailure(resp))
                /\ UNCHANGED <<ODataID, ID, client, etag>>
           ELSE IF DecodeFails(id)
                THEN /\ ret' = Err("DecodeError")
                     /\ UNCHANGED <<ODataID, ID, client, etag>>
                ELSE /\ ODataID' = IF resp.odataId.t = "string"
                                   THEN resp.odataId.s ELSE ODataID
                     /\ ID' = IF id.t = "string" THEN id.s ELSE ID
                     /\ etag' = GetEtag(resp)
                     /\ client' = c
                     /\ ret' = Nil
        /\ UNCHANGED <<stripEtagQuotes, disableEtagMatch,
                   varsList, varsDiff, varsFilter>>

\* The second version keeps only the id member of the body.
Get2(c, uri, resp) ==
    LET id == NormalizedId2(resp.id)
    IN  /\ Alive
        /\ op' = Op("Get2", <<>>, resp, EmptyMap, <<>>)
        /\ calls' = <<Call("GET", c, uri, EmptyMap, EmptyMap, resp.status)>>
        /\ IF GetFailure(resp) # "nil"
           THEN /\ ret' = Err(GetFailure(resp))
                /\ UNCHANGED <<ID, client, etag>>
           ELSE IF DecodeFails(id)
                THEN /\ ret' = Err("DecodeError")
                     /\ UNCHANGED <<ID, client, etag>>
                ELSE /\ ID' = IF id.t = "string" THEN id.s ELSE ID
                     /\ etag' = GetEtag(resp)
                     /\ client' = c
                     /\ ret' = Nil
        /\ UNCHANGED <<ODataID, stripEtagQuotes, disableEtagMatch,
                   varsList, varsDiff, varsFilter>>

----------------------------------------------------------------------------
(* The collection fetch ListReferencedDataStorageLineOfServices.  The       *)
(* calling goroutine aggregates; one goroutine runs CollectList and close;  *)
(* CollectList starts one goroutine per member link, each running get.      *)

CollectionLink == "/Lines"
AllMemberLinks == <<"/Lines/1", "/Lines/2", "/Lines/3", "/Lines/4", "/Lines/5">>
MemberLinks == {AllMemberLinks[i] : i \in 1..MaxMembers}

NoError == "nil"
GetErrorOf(link) == "get failed: " \o link
WalkError == "collection failed"

\* What GetDataStorageLineOfService(c, link) hands back.
Item(link) == [ODataID |-> link]
GetResult(link, err) == [Item |-> Item(link), Link |-> link, Error |-> err]
NoResult == GetResult("", NoError)

NotReturned == [returned |-> FALSE, result |-> <<>>, err |-> NoError, Failures |-> EmptyMap]
Returned(res, err, fails) ==
    [returned |-> TRUE, result |-> res, err |-> err, Failures |-> fails]

\* common.CollectionError.Empty()
Empty(fails) == MapLen(fails) = 0

\* if link == "" { return result, nil }
IsEmptyLinkNever(link) == FALSE
IsEmptyLink(link) == link = ""

\* The call: an empty link returns at once, any other link makes the channel
\* and starts the CollectList goroutine.
ListStart ==
    /\ mpc = "entry"
    /\ IF IsEmptyLink(listLink)
       THEN /\ mpc' = "done"
            /\ returned' = Returned(result, NoError, EmptyMap)
            /\ UNCHANGED cpc
       ELSE /\ mpc' = "recv"
            /\ cpc' = "walk"
            /\ UNCHANGED returned
    /\ UNCHANGED <<r, closed, Failures, result, members, failing, walkErr, listLink, wpc,
                   varsEntity, varsDiff, varsFilter>>

\* CollectList meets a member link and starts get(link) in a goroutine.
Dispatch(link) ==
    /\ cpc = "walk"
    /\ link \in members
    /\ wpc[link] = "idle"
    /\ wpc' = [wpc EXCEPT ![link] = "get"]
    /\ UNCHANGED <<r, closed, Failures, result, members, failing, walkErr, listLink,
                   cpc, mpc, returned,
                   varsEntity, varsDiff, varsFilter>>

\* get: GetDataStorageLineOfService returns; the goroutine is about to send.
Fetch(link) ==
    /\ wpc[link] = "get"
    /\ wpc' = [wpc EXCEPT ![link] = "send"]
    /\ UNCHANGED <<r, closed, Failures, result, members, failing, walkErr, listLink,
                   cpc, mpc, returned,
                   varsEntity, varsDiff, varsFilter>>

\* ch is unbuffered: the send of get and the receive of the range loop are one step.
Receive(link) ==
    /\ mpc = "recv"
    /\ ~closed
    /\ wpc[link] = "send"
    /\ r' = GetResult(link, IF link \in failing THEN GetErrorOf(link) ELSE NoError)
    /\ wpc' = [wpc EXCEPT ![link] = "done"]
    /\ mpc' = "store"
    /\ UNCHANGED <<closed, Failures, result, members, failing, walkErr, listLink,
                   cpc, returned,
                   varsEntity, varsDiff, varsFilter>>

\* The body of the range loop.
StoreFailureUnderOuterLink(res) == Put(Failures, listLink, res.Error)
StoreFailure(res) == Put(Failures, res.Link, res.Error)

StoreItem(res) == Append(result, res.Item)

Store ==
    /\ mpc = "store"
    /\ IF r.Error # NoError
       THEN Failures' = StoreFailure(r) /\ UNCHANGED result
       ELSE result' = StoreItem(r) /\ UNCHANGED Failures
    /\ mpc' = "recv"
    /\ UNCHANGED <<r, closed, members, failing, walkErr, listLink, wpc, cpc, returned,
                   varsEntity, varsDiff, varsFilter>>

\* CollectList returns once every get it started has returned: with an error
\* when the walk fails (some members may never have been met), with nil after
\* the last member otherwise.
CollectListReturn ==
    /\ cpc = "walk"
    /\ \A link \in MemberLinks : wpc[link] \in {"idle", "done"}
    /\ walkErr \/ \A link \in members : wpc[link] = "done"
    /\ cpc' = IF walkErr THEN "record" ELSE "close"
    /\ UNCHANGED <<r, closed, Failures, result, members, failing, walkErr, listLink,
                   wpc, mpc, returned,
                   varsEntity, varsDiff, varsFilter>>

\* collectionError.Failures[link] = err, in the CollectList goroutine.
RecordWalkError ==
    /\ cpc = "record"
    /\ Failures' = Put(Failures, listLink, WalkError)
    /\ cpc' = "close"
    /\ UNCHANGED <<r, closed, result, members, failing, walkErr, listLink, wpc, mpc,
                   returned,
                   varsEntity, varsDiff, varsFilter>>

\* The two map writes above are not ordered by any synchronisation: when both
\* are about to happen they race.  The runtime may stop the process (fatal
\* error: concurrent map writes), or either write may be lost.
RacingWrites ==
    /\ cpc = "record"
    /\ mpc = "store"
    /\ r.Error # NoError
    /\ \/ /\ mpc' = "fatal"
          /\ cpc' = "fatal"
          /\ UNCHANGED Failures
       \/ /\ Failures' \in { Put(Failures, listLink, WalkError),
                             StoreFailure(r),
                             Put(StoreFailure(r), listLink, WalkError) }
          /\ mpc' = "recv"
          /\ cpc' = "close"
    /\ UNCHANGED <<r, closed, result, members, failing, walkErr, listLink, wpc, returned,
                   varsEntity, varsDiff, varsFilter>>

\* close(ch), the statement after CollectList has returned.
CloseWithoutWaiting ==
    /\ cpc \in {"walk", "close"}
    /\ closed' = TRUE
    /\ cpc' = "done"
    /\ UNCHANGED <<r, Failures, result, members, failing, walkErr, listLink, wpc, mpc,
                   returned,
                   varsEntity, varsDiff, varsFilter>>
Close ==
    /\ cpc = "close"
    /\ closed' = TRUE
    /\ cpc' = "done"
    /\ UNCHANGED <<r, Failures, result, members, failing, walkErr, listLink, wpc, mpc,
                   returned,
                   varsEntity, varsDiff, varsFilter>>

\* The range loop ends on the closed channel; the function returns.
ReturnedError(fails) == IF Empty(fails) THEN NoError ELSE "CollectionError"

ListReturn ==
    /\ mpc = "recv"
    /\ closed
    /\ returned' = Returned(result, ReturnedError(Failures), Failures)
    /\ mpc' = "done"
    /\ UNCHANGED <<r, closed, Failures, result, members, failing, walkErr, listLink,
                   wpc, cpc,
                   varsEntity, varsDiff, varsFilter>>

----------------------------------------------------------------------------
(* Specifications. *)

\* A freshly constructed entity.
EntityNew ==
    /\ ODataID = <<>>
    /\ ID = <<>>
    /\ client = NoClient
    /\ etag = <<>>
    /\ stripEtagQuotes = FALSE
    /\ disableEtagMatch = FALSE
    /\ op = Op("new", <<>>, NoResponse, EmptyMap, <<>>)
    /\ calls = <<>>
    /\ ret = Nil

\* No collection fetch in progress.
ListIdle ==
    /\ r = NoResult
    /\ closed = FALSE
    /\ Failures = EmptyMap
    /\ result = <<>>
    /\ members = {}
    /\ failing = {}
    /\ walkErr = FALSE
    /\ listLink = ""
    /\ wpc = [link \in MemberLinks |-> "idle"]
    /\ cpc = "idle"
    /\ mpc = "idle"
    /\ returned = NotReturned

\* No diff has been asked for.
DiffIdle ==
    /\ dShape = "none"
    /\ dOriginal = <<>>
    /\ dUpdated = <<>>
    /\ dPayload = EmptyMap
    /\ dpc = "idle"

\* var f Filter
NoFilterOp == [name |-> "none", opts |-> <<>>]
FilterNew ==
    /\ filter = <<>>
    /\ fop = NoFilterOp

FailedResponses ==
    {Response(s, Absent, Absent, NoHeader) : s \in {"TransportError", "ReadError", "BadJSON"}}

\* Responses that exercise the version token.
TokenResponses ==
    FailedResponses \cup
    { Response("ok", JString(SystemsURI), Absent, h) :
        h \in {NoHeader} \cup {Header(v) : v \in EtagValues} } \cup
    { Response("ok", JString(SystemsURI), JNumber(7), NoHeader) }

\* The same for the second version of Get, with one token.
FewTokenResponses ==
    FailedResponses \cup
    { Response("ok", JString(SystemsURI), Absent, h) :
        h \in {NoHeader, Header(<<DQUOTE, "a", DQUOTE>>)} } \cup
    { Response("ok", JString(SystemsURI), JNumber(7), NoHeader) }

\* Responses that exercise the identifier.
RecordResponses(uri) ==
    { Response("ok", o, i, NoHeader) :
        o \in {Absent, JString(uri)},
        i \in {Absent, JString(<<"7">>), JString(<<"a">>), JNumber(7), JNumber(12),
               JNumber(0 - 3)} }

SamplePayload == [Description |-> "e"]
EditedRecord == DataStorageLineOfService("n", "t", NilSlice, "e")

\* One entity, every operation, every token.
Init == EntityNew /\ ListIdle /\ DiffIdle /\ FilterNew

Next ==
    \/ \E c \in Clients : SetClient(c)
    \/ \E b \in BOOLEAN : StripEtagQuotes(b)
    \/ \E b \in BOOLEAN : DisableEtagMatch(b)
    \/ \E c \in Clients, resp \in TokenResponses : Get(c, SystemsURI, resp)
    \/ \E c \in Clients, resp \in FewTokenResponses : Get2(c, SystemsURI, resp)
    \/ \E tr \in WriteOutcomes : Patch(SystemsURI, SamplePayload, tr)
    \/ \E tr \in WriteOutcomes : Post(SystemsURI, SamplePayload, tr)
    \/ \E updated \in {OriginalRecord, EditedRecord},
          allowed \in {<<>>, <<"Description">>}, tr \in WriteOutcomes :
            Update(OriginalRecord, updated, allowed, tr)

Spec == Init /\ [][Next]_vars

\* Get on every kind of resource and identifier.
NextRecord ==
    \/ \E uri \in URIs : \E resp \in RecordResponses(uri) : Get("c1", uri, resp)
    \/ \E uri \in URIs : \E resp \in RecordResponses(uri) : Get2("c1", uri, resp)

SpecRecord == Init /\ [][NextRecord]_vars

\* Update over every edit of a record and every allow-list.
NextUpdate ==
    \/ \E c \in Clients : SetClient(c)
    \/ \E c \in Clients :
          Get(c, SystemsURI,
              Response("ok", JString(SystemsURI), Absent, Header(<<DQUOTE, "a", DQUOTE>>)))
    \/ \E updated \in UpdatedRecords, allowed \in AllowedUpdateLists,
          tr \in WriteOutcomes :
            Update(OriginalRecord, updated, allowed, tr)

SpecUpdate == Init /\ [][NextUpdate]_vars

\* One collection fetch: any link, any members, any failing members.
InitList ==
    /\ EntityNew
    /\ r = NoResult
    /\ closed = FALSE
    /\ Failures = EmptyMap
    /\ result = <<>>
    /\ listLink \in {"", CollectionLink}
    /\ members \in SUBSET MemberLinks
    /\ failing \in SUBSET members
    /\ walkErr \in BOOLEAN
    /\ wpc = [link \in MemberLinks |-> "idle"]
    /\ cpc = "idle"
    /\ mpc = "entry"
    /\ returned = NotReturned
    /\ DiffIdle
    /\ FilterNew

NextList ==
    \/ ListStart
    \/ \E link \in MemberLinks : Dispatch(link)
    \/ \E link \in MemberLinks : Fetch(link)
    \/ \E link \in MemberLinks : Receive(link)
    \/ Store
    \/ CollectListReturn
    \/ RecordWalkError
    \/ RacingWrites
    \/ Close
    \/ ListReturn

SpecList == InitList /\ [][NextList]_vars

\* The Go scheduler runs every goroutine that can take a step: a fetch that
\* can move does not stand still for ever.
SpecListFair == SpecList /\ WF_vars(NextList)

\* The diff on its own.  Two record types: the scalar fields of
\* DataStorageLineOfService, and the same with a pointer field with a json tag,
\* one without, a field tagged "-" and an unexported field.
ScalarsShape ==
    << Fld("ODataType", "@odata.type", "scalar", TRUE, FALSE, <<>>),
       Fld("IsSpaceEfficient", "", "scalar", TRUE, FALSE, <<>>),
       Fld("RecoverableCapacitySourceCount", "", "scalar", TRUE, FALSE, <<>>) >>
RefsShape ==
    ScalarsShape \o
    << Fld("Owner", "Links", "ptr", TRUE, FALSE, <<>>),
       Fld("Next", "", "ptr", TRUE, FALSE, <<>>),
       Fld("Raw", "-", "scalar", TRUE, FALSE, <<>>),
       Fld("cache", "", "scalar", FALSE, FALSE, <<>>) >>
\* A record type with the embedded Entity and a named sub-object that has a
\* named sub-object of its own.
OemShape == << Fld("Vendor", "", "scalar", TRUE, FALSE, <<>>) >>
StatusShape ==
    << Fld("Health", "", "scalar", TRUE, FALSE, <<>>),
       Fld("OEM", "Oem", "struct", TRUE, FALSE, OemShape) >>
NestedShape ==
    << Fld("Entity", "", "struct", TRUE, TRUE, EntityShape),
       Fld("Description", "", "scalar", TRUE, FALSE, <<>>),
       Fld("Status", "", "struct", TRUE, FALSE, StatusShape) >>
ShapeOf(name) ==
    IF name = "Scalars" THEN ScalarsShape
    ELSE IF name = "Refs" THEN RefsShape
    ELSE NestedShape

\* A pointer is nil or the address of one of two objects.
Pointers == {"nil", "0xc000010000", "0xc000010008"}
ScalarsRecords ==
    [ODataType : {"#A", "#B"}, IsSpaceEfficient : BOOLEAN,
     RecoverableCapacitySourceCount : {0, 2}]
RefsRecords ==
    [ODataType : {"#A", "#B"}, IsSpaceEfficient : {FALSE},
     RecoverableCapacitySourceCount : {0, 2},
     Owner : Pointers, Next : {"nil", "0xc000010000"}, Raw : {"x", "y"},
     cache : {0}]
NestedRecords ==
    [Entity : {[EntityValue(n, "t") EXCEPT !.ID = i] : n \in {"n", "m"}, i \in {"1", "2"}},
     Description : {"d", "e"},
     Status : [Health : {"OK", "Critical"}, OEM : [Vendor : {"v", "w"}]]]
RecordsOf(name) ==
    IF name = "Scalars" THEN ScalarsRecords
    ELSE IF name = "Refs" THEN RefsRecords
    ELSE NestedRecords

InitDiff ==
    /\ EntityNew
    /\ ListIdle
    /\ FilterNew
    /\ dShape \in {"Scalars", "Refs", "Nested"}
    /\ dOriginal \in RecordsOf(dShape)
    /\ dUpdated \in RecordsOf(dShape)
    /\ dPayload = EmptyMap
    /\ dpc = "args"

\* payload := getPatchPayloadFromUpdate(originalEntity, updatedEntity)
Diff ==
    /\ dpc = "args"
    /\ dPayload' = getPatchPayloadFromUpdate(ShapeOf(dShape), dOriginal, dUpdated)
    /\ dpc' = "done"
    /\ UNCHANGED <<dShape, dOriginal, dUpdated, varsEntity, varsList, varsFilter>>

NextDiff == Diff

SpecDiff == InitDiff /\ [][NextDiff]_vars

----------------------------------------------------------------------------
(* Properties of Update (checked under SpecUpdate). *)

\* C1: when the diff holds a field that is not in allowedUpdates, Update returns
\* a read-only-field error naming a field of the diff that is absent from
\* allowedUpdates, and issues no transport call.
C1_UpdateRejectsReadOnly ==
    (/\ op.name = "Update"
     /\ \E field \in DOMAIN op.payload : field \notin Range(op.allowedUpdates))
    => /\ ret.err = "ReadOnlyField"
       /\ ret.field \in DOMAIN op.payload
       /\ ret.field \notin Range(op.allowedUpdates)
       /\ calls = <<>>

\* An Update whose diff has an allowed and a read-only field, on a bound entity.
C1_Witness ==
    /\ op.name = "Update"
    /\ client # NoClient
    /\ "Description" \in DOMAIN op.payload
    /\ "Description" \in Range(op.allowedUpdates)
    /\ "AccessCapabilities" \in DOMAIN op.payload
    /\ ret = ReadOnly("AccessCapabilities")
    /\ calls = <<>>

\* C9: an Update with an empty diff issues no transport call and returns nil,
\* whatever the allow-list and whether or not a client is bound.
C9_EmptyDiffIsNoOp ==
    (op.name = "Update" /\ DOMAIN op.payload = {})
    => (calls = <<>> /\ ret = Nil)

\* An Update with an empty diff and an empty allow-list, on an unbound entity.
C9_Witness ==
    /\ op.name = "Update"
    /\ DOMAIN op.payload = {}
    /\ op.allowedUpdates = <<>>
    /\ client = NoClient
    /\ ret = Nil

----------------------------------------------------------------------------
(* Properties of the version token (checked under Spec). *)

IsWrite(name) == name \in {"Patch", "Post"}
IsGet(name) == name \in {"Get", "Get2"}

\* h is t without its leading and trailing double-quote characters.
IsUnquoted(h, t) ==
    /\ h = <<>> \/ (Head(h) # DQUOTE /\ h[Len(h)] # DQUOTE)
    /\ \E i \in 0..Len(t) :
          /\ i + Len(h) <= Len(t)
          /\ SubSeq(t, i + 1, i + Len(h)) = h
          /\ \A k \in 1..Len(t) : (k <= i \/ k > i + Len(h)) => t[k] = DQUOTE

\* C2: Patch and Post leave the stored version token as it was, whatever the
\* token, the flags and the transport outcome.
C2_WritesKeepToken ==
    [][IsWrite(op'.name) => etag' = etag]_vars

\* C5: Patch on an entity with a non-empty token t and version checking enabled
\* hands the transport the header If-Match with t verbatim when quotes are not
\* stripped, and t without its surrounding double quotes when they are.
C5_PatchIfMatchValue ==
    [][(/\ op'.name = "Patch"
        /\ calls' # <<>>
        /\ etag # <<>>
        /\ ~disableEtagMatch)
       => /\ Len(calls') = 1
          /\ DOMAIN calls'[1].header = {"If-Match"}
          /\ IF stripEtagQuotes
             THEN IsUnquoted(calls'[1].header["If-Match"], etag)
             ELSE calls'[1].header["If-Match"] = etag]_vars

\* A Patch that sent a quoted token unquoted.
C5_Witness ==
    /\ op.name = "Patch"
    /\ op.etag0 = <<DQUOTE, "a", DQUOTE>>
    /\ stripEtagQuotes
    /\ ~disableEtagMatch
    /\ Len(calls) = 1
    /\ calls[1].header = [x \in {"If-Match"} |-> <<"a">>]

\* C6: Patch and Post send an If-Match header exactly when the token is
\* non-empty and version checking is enabled; otherwise the header map is empty.
C6_IfMatchPresence ==
    [][(IsWrite(op'.name) /\ calls' # <<>>)
       => /\ Len(calls') = 1
          /\ IF etag # <<>> /\ ~disableEtagMatch
             THEN DOMAIN calls'[1].header = {"If-Match"}
             ELSE calls'[1].header = EmptyMap]_vars

\* A Post that sent no header although a token is stored and quotes are stripped.
C6_Witness ==
    /\ op.name = "Post"
    /\ op.etag0 # <<>>
    /\ stripEtagQuotes
    /\ disableEtagMatch
    /\ Len(calls) = 1
    /\ calls[1].header = EmptyMap

\* C7: once the stored version token is non-empty it never becomes empty again.
C7_TrackedStaysTracked ==
    [][etag # <<>> => etag' # <<>>]_vars

\* C8: after a successful Get whose response carries an Etag header the stored
\* token is that header's value and the bound client is the one passed to Get;
\* a Patch or Post that follows goes to that client with that token.
C8_GetSavesEtagAndClient ==
    [][/\ (IsGet(op'.name) /\ ret' = Nil /\ op'.resp.etagHdr.has)
          => /\ etag' = op'.resp.etagHdr.v
             /\ client' = calls'[1].client
       /\ (IsGet(op.name) /\ ret = Nil /\ op.resp.etagHdr.has /\ IsWrite(op'.name))
          => /\ Len(calls') = 1
             /\ calls'[1].client = calls[1].client
             /\ "If-Match" \in DOMAIN calls'[1].header
                => IF stripEtagQuotes
                   THEN IsUnquoted(calls'[1].header["If-Match"], op.resp.etagHdr.v)
                   ELSE calls'[1].header["If-Match"] = op.resp.etagHdr.v]_vars

\* A Get through c2 that stored the token of its response.
C8_Witness ==
    /\ op.name = "Get"
    /\ ret = Nil
    /\ op.resp.etagHdr = Header(<<DQUOTE, "a", DQUOTE>>)
    /\ etag = <<DQUOTE, "a", DQUOTE>>
    /\ calls[1].client = "c2"
    /\ client = "c2"

----------------------------------------------------------------------------
(* Properties of the fetched record (checked under SpecRecord). *)

\* C4: Get on a retrieved response whose Id is a JSON number yields a record
\* whose ID is the decimal string of that number, for every resource URI; an Id
\* that is a string is kept as it is.
C4_GetNormalizesId ==
    (IsGet(op.name) /\ op.resp.status = "ok")
    => /\ op.resp.id.t = "number" => (ret = Nil /\ ID = Itoa(op.resp.id.n))
       /\ op.resp.id.t = "string" => (ret = Nil /\ ID = op.resp.id.s)

----------------------------------------------------------------------------
(* Properties of the collection fetch (checked under SpecList). *)

ResultLinks(res) == {res[i].ODataID : i \in DOMAIN res}

\* C3: when the walk succeeds over N distinct member links of which K fail, the
\* returned list has N-K instances, the failure mapping has K entries, and each
\* link is in exactly one of the two.
C3_EveryLinkOnce ==
    (returned.returned /\ listLink # "" /\ ~walkErr)
    => /\ Len(returned.result) = Cardinality(members) - Cardinality(failing)
       /\ Cardinality(DOMAIN returned.Failures) = Cardinality(failing)
       /\ \A link \in members :
             (link \in ResultLinks(returned.result))
                 # (link \in DOMAIN returned.Failures)

\* A fetch that returned with some members fetched and some failed.
C3_Witness ==
    /\ returned.returned
    /\ listLink # ""
    /\ ~walkErr
    /\ Cardinality(members) >= 3
    /\ failing # {}
    /\ failing # members
    /\ Len(returned.result) >= 1
    /\ returned.err = "CollectionError"

\* C10: the fetch returns a nil error exactly when the failure mapping is empty;
\* with a non-nil error the mapping is non-empty and holds the (link, error)
\* pair of every failed fetch, and the list holds every fetched instance.
C10_AggregateError ==
    (returned.returned /\ listLink # "")
    => /\ (returned.err = NoError) <=> (Failures = EmptyMap)
       /\ returned.err # NoError
          => /\ returned.Failures # EmptyMap
             /\ \A link \in MemberLinks :
                   (wpc[link] = "done" /\ link \in failing)
                   => /\ link \in DOMAIN returned.Failures
                      /\ returned.Failures[link] = GetErrorOf(link)
             /\ \A link \in MemberLinks :
                   (wpc[link] = "done" /\ link \notin failing)
                   => link \in ResultLinks(returned.result)

----------------------------------------------------------------------------
(* Properties of the transport calls (checked under Spec). *)

\* The header map Patch builds from a token and the two flags.
PatchHeaderFrom(e, strip, disable) ==
    IF PatchSendsIfMatch(e, disable)
    THEN [x \in {"If-Match"} |-> PatchEtag(e, strip)]
    ELSE EmptyMap

\* C11 as stated: the header Post passes is the header Patch would pass from
\* the same state, and both return the transport's error when the write fails
\* and nil whenever it went through.
C11_PostAsPatch ==
    [][(IsWrite(op'.name) /\ calls' # <<>>)
       => /\ calls'[1].header = PatchHeaderFrom(etag, stripEtagQuotes, disableEtagMatch)
          /\ IF calls'[1].answer = "TransportError"
             THEN ret' = Err("TransportError")
             ELSE ret' = Nil]_vars

\* C11 amended: the header Post passes is the header Patch would pass from the
\* same state; both return the transport's error when the write fails and,
\* when it went through, what closing the body returns: nil, or the close error.
C11_PostAsPatchClose ==
    [][(IsWrite(op'.name) /\ calls' # <<>>)
       => /\ calls'[1].header = PatchHeaderFrom(etag, stripEtagQuotes, disableEtagMatch)
          /\ calls'[1].answer = "TransportError" => ret' = Err("TransportError")
          /\ calls'[1].answer = "ok" => ret' = Nil
          /\ calls'[1].answer = "CloseError" => ret' = Err("CloseError")]_vars

\* A Post that sent a stripped token and returned the error of Body.Close.
C11_Witness ==
    /\ op.name = "Post"
    /\ op.etag0 = <<DQUOTE, "a", DQUOTE>>
    /\ Len(calls) = 1
    /\ calls[1].header = [x \in {"If-Match"} |-> <<"a">>]
    /\ calls[1].answer = "CloseError"
    /\ ret = Err("CloseError")

\* C16: an operation whose transport call failed has issued exactly that one
\* call and returns its error; no operation issues more than one call, and
\* Update issues at most one PATCH.
C16_NoRetry ==
    /\ Len(calls) <= 1
    /\ \A i \in DOMAIN calls :
          calls[i].answer = "TransportError" => ret = Err("TransportError")
    /\ op.name = "Update" => \A i \in DOMAIN calls : calls[i].method = "PATCH"

\* An Update whose only PATCH failed in the transport.
C16_Witness ==
    /\ op.name = "Update"
    /\ Len(calls) = 1
    /\ calls[1].method = "PATCH"
    /\ calls[1].answer = "TransportError"
    /\ etag # <<>>
    /\ ret = Err("TransportError")

\* C20: a Get that cannot retrieve, read or decode the response returns an
\* error and leaves the stored token and the bound client as they were.
C20_FailedGetChangesNothing ==
    [][IsGet(op'.name)
       => /\ calls'[1].answer \in {"TransportError", "ReadError", "BadJSON"}
             => ret' # Nil
          /\ ret' # Nil => (etag' = etag /\ client' = client)]_vars

\* A Get through another client that failed to decode, on a tracked entity.
C20_Witness ==
    /\ IsGet(op.name)
    /\ ret = Err("DecodeError")
    /\ etag = <<DQUOTE, "a", DQUOTE>>
    /\ client = "c1"
    /\ calls[1].client = "c2"

----------------------------------------------------------------------------
(* Properties of the tasks of the collection fetch (checked under SpecList). *)

\* C14: with an empty collection link the fetch returns an empty list and a nil
\* error; no member is dispatched, the walk is not started and the loop over
\* the channel is never entered.
C14_EmptyLinkReturnsAtOnce ==
    listLink = ""
    => /\ cpc = "idle"
       /\ mpc \in {"entry", "done"}
       /\ \A link \in MemberLinks : wpc[link] = "idle"
       /\ ~closed
       /\ r = NoResult
       /\ mpc = "done" => returned = Returned(<<>>, NoError, EmptyMap)

\* The fetch of an empty link has returned, although members could be listed.
C14_Witness ==
    /\ listLink = ""
    /\ members # {}
    /\ mpc = "done"
    /\ returned = Returned(<<>>, NoError, EmptyMap)

\* C17: the result list and the failure mapping are written only by a step of
\* the aggregating task (the body of its receive loop), and no two tasks are
\* about to access the failure mapping at once with one of them writing.
C17_SingleWriter ==
    [][/\ (Failures' # Failures \/ result' # result)
          => (mpc = "store" /\ mpc' = "recv" /\ cpc' = cpc /\ wpc' = wpc)
       /\ ~(cpc = "record" /\ mpc = "store" /\ r.Error # NoError)]_vars

\* C18: the channel is closed once, by the walk task, after every get it
\* dispatched has handed its report to the aggregating task; nothing is sent
\* after the close, and a fetch that went through the loop returns after it.
C18_CloseAfterAllReports ==
    [][/\ closed => closed'
       /\ closed' # closed
          => /\ cpc = "close" /\ cpc' = "done"
             /\ mpc' = mpc
             /\ \A link \in MemberLinks : wpc[link] \in {"idle", "done"}
       /\ closed => (r' = r /\ wpc' = wpc)
       /\ (mpc' = "done" /\ listLink # "") => closed']_vars

\* The channel is closed after two reports went through it, one still unstored.
C18_Witness ==
    /\ closed
    /\ cpc = "done"
    /\ mpc = "store"
    /\ Cardinality({link \in MemberLinks : wpc[link] = "done"}) >= 2

\* C19: under fair scheduling the fetch returns, and it does not return while
\* a dispatched get has still to hand over its report.
C19_FetchTerminates ==
    /\ <>(mpc = "done")
    /\ [](mpc = "done" => \A link \in MemberLinks : wpc[link] \in {"idle", "done"})

----------------------------------------------------------------------------
(* The filter builder. *)

SkipKey == <<"$", "s", "k", "i", "p", "=">>
TopKey == <<"$", "t", "o", "p", "=">>

\* The option functions, as the number each closure holds.
WithSkip(skipNum) == [key |-> SkipKey, num |-> skipNum]
WithTop(topNum) == [key |-> TopKey, num |-> topNum]

\* opt(e): fmt.Sprintf("%s$skip=%d", *e, skipNum), likewise for $top.
Apply(opt, e) == e \o opt.key \o Itoa(opt.num)

\* if idx < lastIdx
NeedsSeparatorAfterLast(idx, lastIdx) == idx <= lastIdx
NeedsSeparator(idx, lastIdx) == idx < lastIdx

\* The range loop of SetFilter from index idx on (Go indexes from 0).
RECURSIVE SetFilterLoop(_, _, _)
SetFilterLoop(opts, idx, e) ==
    IF idx > Len(opts) - 1 THEN e
    ELSE LET lastIdx == Len(opts) - 1
             applied == Apply(opts[idx + 1], e)
         IN  SetFilterLoop(opts, idx + 1,
                 IF NeedsSeparator(idx, lastIdx) THEN applied \o <<"&">> ELSE applied)

SetFilter(opts) ==
    /\ filter' = SetFilterLoop(opts, 0, <<"?">>)
    /\ fop' = [name |-> "SetFilter", opts |-> opts]
    /\ UNCHANGED <<varsEntity, varsList, varsDiff>>

ClearFilter ==
    /\ filter' = <<>>
    /\ fop' = [name |-> "ClearFilter", opts |-> <<>>]
    /\ UNCHANGED <<varsEntity, varsList, varsDiff>>

FilterNumbers == {0, 7, 12}
FilterOptions ==
    {WithSkip(n) : n \in FilterNumbers} \cup {WithTop(n) : n \in FilterNumbers}

NextFilter ==
    \/ \E opts \in SeqsUpTo(FilterOptions, MaxOpts) : SetFilter(opts)
    \/ ClearFilter

SpecFilter == Init /\ [][NextFilter]_vars

----------------------------------------------------------------------------
(* Properties of the filter builder (checked under SpecFilter). *)

\* The fragments of a non-empty list of options with one "&" between neighbours.
RECURSIVE Joined(_)
Joined(opts) ==
    IF Len(opts) = 1 THEN Apply(opts[1], <<>>)
    ELSE Apply(Head(opts), <<>>) \o <<"&">> \o Joined(Tail(opts))

\* C15: whatever the filter held, after SetFilter with at least one option it
\* is "?" followed by the options' fragments in call order with a single "&"
\* between neighbours, none in front and none at the end; after ClearFilter it
\* is the empty string.
C15_FilterString ==
    [][/\ (fop'.name = "SetFilter" /\ Len(fop'.opts) >= 1)
          => /\ filter' = <<"?">> \o Joined(fop'.opts)
             /\ filter'[2] # "&"
             /\ filter'[Len(filter')] # "&"
             /\ Cardinality({i \in DOMAIN filter' : filter'[i] = "&"})
                   = Len(fop'.opts) - 1
       /\ fop'.name = "ClearFilter" => filter' = <<>>]_vars

\* SetFilter(WithSkip(12), WithTop(7)) has built ?$skip=12&$top=7.
C15_Witness ==
    /\ fop = [name |-> "SetFilter", opts |-> <<WithSkip(12), WithTop(7)>>]
    /\ filter = <<"?", "$", "s", "k", "i", "p", "=", "1", "2", "&",
                  "$", "t", "o", "p", "=", "7">>

----------------------------------------------------------------------------
(* Properties of the diff (checked under SpecDiff). *)

\* The fields of a record type in which two records differ.
Differing(shape, a, b) == {i \in DOMAIN shape : a[shape[i].name] # b[shape[i].name]}

\* C12: for records of visible scalar fields the payload maps the wire name of
\* each field whose value changed to its updated value and has no other key;
\* it is empty for equal records and has one entry for one changed field.
C12_DiffOfScalars ==
    (dpc = "done" /\ dShape = "Scalars")
    => LET changed == Differing(ScalarsShape, dOriginal, dUpdated)
       IN  /\ DOMAIN dPayload = {WireName(ScalarsShape[i]) : i \in changed}
           /\ \A i \in changed :
                 dPayload[WireName(ScalarsShape[i])] = dUpdated[ScalarsShape[i].name]
           /\ dOriginal = dUpdated => dPayload = EmptyMap
           /\ Cardinality(changed) = 1 => MapLen(dPayload) = 1

\* Only the field tagged @odata.type changed; the payload is its new value.
C12_Witness ==
    /\ dpc = "done"
    /\ dShape = "Scalars"
    /\ dOriginal.ODataType = "#A"
    /\ dUpdated = [dOriginal EXCEPT !.ODataType = "#B"]
    /\ dPayload = [k \in {"@odata.type"} |-> "#B"]

\* C13: no key of a payload is the wire name of a pointer field, and records
\* that differ in pointer fields only have an empty payload.
C13_PointersNotDiffed ==
    (dpc = "done" /\ dShape = "Refs")
    => /\ \A i \in DOMAIN RefsShape :
             RefsShape[i].kind = "ptr" => WireName(RefsShape[i]) \notin DOMAIN dPayload
       /\ (\A i \in Differing(RefsShape, dOriginal, dUpdated) : RefsShape[i].kind = "ptr")
          => dPayload = EmptyMap

\* Both pointer fields changed and nothing else: the payload is empty.
C13_Witness ==
    /\ dpc = "done"
    /\ dShape = "Refs"
    /\ dOriginal.Owner = "0xc000010000"
    /\ dUpdated.Owner = "0xc000010008"
    /\ dOriginal.Next # dUpdated.Next
    /\ Differing(RefsShape, dOriginal, dUpdated) = {4, 5}
    /\ dPayload = EmptyMap

\* C21: the entries of the diff of an embedded record are keys of the parent
\* payload; the diff of a named sub-object is under the field's wire name
\* exactly when it is non-empty, at every depth, so no sub-mapping is empty.
C21_NestedDiff ==
    (dpc = "done" /\ dShape = "Nested")
    => LET o == dOriginal
           u == dUpdated
           p == dPayload
       IN  /\ "Entity" \notin DOMAIN p
           /\ DOMAIN p \subseteq {"Id", "Name", "Description", "Status"}
           /\ ("Id" \in DOMAIN p) <=> (o.Entity.ID # u.Entity.ID)
           /\ ("Id" \in DOMAIN p) => p["Id"] = u.Entity.ID
           /\ ("Name" \in DOMAIN p) <=> (o.Entity.Name # u.Entity.Name)
           /\ ("Name" \in DOMAIN p) => p["Name"] = u.Entity.Name
           /\ ("Status" \in DOMAIN p) <=> (o.Status # u.Status)
           /\ ("Status" \in DOMAIN p)
              => LET st == p["Status"]
                 IN  /\ st # EmptyMap
                     /\ DOMAIN st \subseteq {"Health", "Oem"}
                     /\ ("Health" \in DOMAIN st) <=> (o.Status.Health # u.Status.Health)
                     /\ ("Health" \in DOMAIN st) => st["Health"] = u.Status.Health
                     /\ ("Oem" \in DOMAIN st) <=> (o.Status.OEM # u.Status.OEM)
                     /\ ("Oem" \in DOMAIN st)
                        => st["Oem"] = [k \in {"Vendor"} |-> u.Status.OEM.Vendor]

\* Both embedded fields and the innermost field changed: two spliced keys and
\* a sub-mapping within a sub-mapping, without the unchanged Health.
C21_Witness ==
    /\ dpc = "done"
    /\ dShape = "Nested"
    /\ dOriginal.Entity.Name # dUpdated.Entity.Name
    /\ dOriginal.Entity.ID # dUpdated.Entity.ID
    /\ dOriginal.Description = dUpdated.Description
    /\ dOriginal.Status.Health = dUpdated.Status.Health
    /\ dOriginal.Status.OEM.Vendor = "v"
    /\ dUpdated.Status.OEM.Vendor = "w"
    /\ DOMAIN dPayload = {"Id", "Name", "Status"}
    /\ dPayload["Status"] = [k \in {"Oem"} |-> [j \in {"Vendor"} |-> "w"]]

----------------------------------------------------------------------------
(* The unbound client (checked under Spec). *)

\* C22: Patch, Post and Update never write through an unbound client: every
\* call they issue goes through a bound client, and on an entity without a
\* client they return an error value, they do not panic.
C22_NoUnboundClient ==
    op.name \in {"Patch", "Post", "Update"}
    => /\ \A i \in DOMAIN calls : calls[i].client # NoClient
       /\ ret.err # "panic"
       /\ (client = NoClient /\ IsWrite(op.name)) => ret # Nil

====
